---- MODULE Spec2Model ----
(***************************************************************************)
(* ServerStatus-Rust: the client's metric sampler (client/src/sys_info.rs) *)
(* and the server's Email and WeChat notification channels                 *)
(* (server/src/notifier/email.rs, wechat.rs).                              *)
(*                                                                         *)
(* The specifications share the definitions below:                         *)
(*   Spec        the two sampler threads running against sample() callers  *)
(*   SampleSpec  sample() alone, its OS facts drawn from bounded sets      *)
(*   NotifySpec  dispatch / notify / notify_test and the delivery tasks    *)
(*   FairSpec    Spec under fair scheduling of its threads                 *)
(*   PoisonSpec  Spec with the counters' mutexes open to poisoning         *)
(*   WeChatFairSpec  the WeChat channel alone, on a runtime that polls     *)
(***************************************************************************)
EXTENDS Integers, Sequences, FiniteSets, TLC

VARIABLES
    \* ---- client/src/sys_info.rs ----
    G_CPU_PERCENT,   \* value guarded by the G_CPU_PERCENT mutex
    G_NET_SPEED,     \* NetSpeed record guarded by the G_NET_SPEED mutex
    cpuLock,         \* holder of the G_CPU_PERCENT mutex, or Free
    netLock,         \* holder of the G_NET_SPEED mutex, or Free
    cpuPc,           \* position of the CPU sampler thread
    cpuUsage,        \* the CPU sampler's sys: global cpu_usage(), in tenths of a percent
    netPc,           \* position of the network sampler thread
    netSys,          \* the network sampler's sys.networks()
    netLocal,        \* the network sampler's locals (net_rx, net_tx)
    os,              \* the facts the OS reports to a fresh System in sample()
    args,            \* the client's Args (vnstat flag)
    samplePc,        \* position of each sample() caller
    stat,            \* each caller's StatRequest
    published,       \* history: the (rx, tx) pairs the network sampler finished publishing
    \* ---- server/src/notifier ----
    templates,       \* the template store: key -> template source, or NoTemplate
    channels,        \* the constructed, enabled channels
    caller,          \* the thread that calls dispatch / notify_test
    cur,             \* the notify / notify_test call that is executing, or NoCall
    calls,           \* history: the calls that returned or panicked, in order
    tasks,           \* the delivery tasks spawned on NOTIFIER_HANDLE, in spawn order
    wire             \* history: per channel, the transport requests issued, in order

samplerVars == <<G_CPU_PERCENT, G_NET_SPEED, cpuLock, netLock, cpuPc, cpuUsage,
                 netPc, netSys, netLocal, os, args, samplePc, stat, published>>
notifierVars == <<templates, channels, caller, cur, calls, tasks, wire>>
vars == <<samplerVars, notifierVars>>

----------------------------------------------------------------------------
(* Bounds of the model *)

\* sampler refreshes draw the traffic level of a cycle from 0..MaxLevel
MaxLevel == 1
\* number of concurrent sample() callers
NumReaders == 1
\* number of notify / notify_test calls the caller thread makes
MaxCalls == 2

Readers == 1..NumReaders
\* the holders of a mutex
Free == <<"free">>
\* a mutex no one holds but which is poisoned: a holder panicked with the guard
Poisoned == <<"poisoned">>
CpuSampler == <<"cpu_sampler">>
NetSampler == <<"net_sampler">>
Reader(r) == <<"sample", r>>

----------------------------------------------------------------------------
(* Strings the code inspects character by character are tuples of characters *)

\* str::contains: sk occurs in name as a contiguous substring
contains(name, sk) ==
    \E i \in 0..(Len(name) - Len(sk)) : SubSeq(name, i + 1, i + Len(sk)) = sk

IFACE_IGNORE_VEC ==
    << <<"l","o">>, <<"d","o","c","k","e","r">>, <<"v","n","e","t">>,
       <<"v","e","t","h">>, <<"v","m","b","r">>, <<"k","u","b","e">>,
       <<"b","r","-">> >>

\* line 70, in the sampler loop: IFACE_IGNORE_VEC.iter().any(|sk| name.contains(*sk))
sampler_skips(name) ==
    \E k \in 1..Len(IFACE_IGNORE_VEC) : contains(name, IFACE_IGNORE_VEC[k])

\* str == sk, what an exact-match filter would decide
skips_exact_names(name) ==
    \E k \in 1..Len(IFACE_IGNORE_VEC) : name = IFACE_IGNORE_VEC[k]

\* line 142, in sample(): IFACE_IGNORE_VEC.iter().any(|sk| name.contains(*sk))
sample_skips(name) ==
    \E k \in 1..Len(IFACE_IGNORE_VEC) : contains(name, IFACE_IGNORE_VEC[k])

eth0 == <<"e","t","h","0">>
ens3 == <<"e","n","s","3">>
docker0 == <<"d","o","c","k","e","r","0">>
veth1234 == <<"v","e","t","h","1","2","3","4">>
lo == <<"l","o">>
wlo1 == <<"w","l","o","1">>
IfaceNames == {eth0, ens3, docker0, veth1234, lo, wlo1}

\* Each interface moves a distinct power of two of bytes per traffic level, so an
\* aggregate identifies the interfaces that were added into it.
IfaceWeight(name) ==
    CASE name = eth0 -> 1
      [] name = ens3 -> 2
      [] name = docker0 -> 4
      [] name = veth1234 -> 8
      [] name = lo -> 16
      [] name = wlo1 -> 32

\* sys.networks() at traffic level k: per interface the bytes since the last
\* refresh (received, transmitted) and the cumulative totals
NetTable(k) ==
    [n \in IfaceNames |->
        [received |-> k * IfaceWeight(n),
         transmitted |-> 100 * k * IfaceWeight(n),
         total_received |-> 1000 + k * IfaceWeight(n),
         total_transmitted |-> 2000 + k * IfaceWeight(n)]]

NetTables == {NetTable(k) : k \in 0..MaxLevel}

RECURSIVE SumOver(_, _)
SumOver(S, f) ==
    IF S = {} THEN 0
    ELSE LET x == CHOOSE y \in S : TRUE IN f[x] + SumOver(S \ {x}, f)

----------------------------------------------------------------------------
(* client/src/sys_info.rs: the shared counters and the two sampler threads *)

\* cpu_usage() is an f32 percentage, modelled in tenths of a percent
CpuUsages == {4, 15}

\* f32::round() as f64: to the nearest integer, halves away from zero
round(tenths) == (tenths + 5) \div 10

\* line 45: G_CPU_PERCENT.lock()
CpuLock ==
    /\ cpuPc = "lock"
    /\ cpuLock = Free
    /\ cpuLock' = CpuSampler
    /\ cpuPc' = "write"
    /\ UNCHANGED <<G_CPU_PERCENT, G_NET_SPEED, netLock, cpuUsage, netPc, netSys,
                   netLocal, os, args, samplePc, stat, published, notifierVars>>

\* the guard bound outside the if-let, alive across the refresh and the sleep
CpuWrite_KeepsGuard ==
    /\ cpuPc = "write"
    /\ cpuLock = CpuSampler
    /\ G_CPU_PERCENT' = round(cpuUsage)
    /\ cpuPc' = "refresh"
    /\ UNCHANGED <<G_NET_SPEED, cpuLock, netLock, cpuUsage, netPc, netSys,
                   netLocal, os, args, samplePc, stat, published, notifierVars>>

\* line 46: *cpu_percent = global_processor.cpu_usage().round() as f64; the guard
\* is dropped at the end of the if-let
CpuWrite ==
    /\ cpuPc = "write"
    /\ cpuLock = CpuSampler
    /\ G_CPU_PERCENT' = round(cpuUsage)
    /\ cpuLock' = Free
    /\ cpuPc' = "refresh"
    /\ UNCHANGED <<G_NET_SPEED, netLock, cpuUsage, netPc, netSys,
                   netLocal, os, args, samplePc, stat, published, notifierVars>>

\* lines 49-50: sys.refresh_cpu(), the sleep of SAMPLE_PERIOD, and the loop turns
CpuRefresh ==
    /\ cpuPc = "refresh"
    /\ cpuUsage' \in CpuUsages
    /\ cpuPc' = "lock"
    /\ UNCHANGED <<G_CPU_PERCENT, G_NET_SPEED, cpuLock, netLock, netPc, netSys,
                   netLocal, os, args, samplePc, stat, published, notifierVars>>

\* lines 69-75: the sum of one counter over the interfaces the loop does not skip
AggregateNet(table, counter) ==
    SumOver({n \in DOMAIN table : ~sampler_skips(n)},
            [n \in DOMAIN table |-> table[n][counter]])

\* lines 68-75: the loop over sys.networks() into the locals net_rx, net_tx
NetAggregate ==
    /\ netPc = "aggregate"
    /\ netLocal' = [net_rx |-> AggregateNet(netSys, "received"),
                    net_tx |-> AggregateNet(netSys, "transmitted")]
    /\ netPc' = "lock"
    /\ UNCHANGED <<G_CPU_PERCENT, G_NET_SPEED, cpuLock, netLock, cpuPc, cpuUsage, netSys,
                   os, args, samplePc, stat, published, notifierVars>>

\* line 76: G_NET_SPEED.lock()
NetLock ==
    /\ netPc = "lock"
    /\ netLock = Free
    /\ netLock' = NetSampler
    /\ netPc' = "write_rx"
    /\ UNCHANGED <<G_CPU_PERCENT, G_NET_SPEED, cpuLock, cpuPc, cpuUsage, netSys,
                   netLocal, os, args, samplePc, stat, published, notifierVars>>

\* the write of net_rx under a guard of its own, dropped before net_tx is written
NetWriteRx_OwnGuard ==
    /\ netPc = "write_rx"
    /\ G_NET_SPEED' = [G_NET_SPEED EXCEPT !.net_rx = netLocal.net_rx]
    /\ netLock' = Free
    /\ netPc' = "write_tx"
    /\ UNCHANGED <<G_CPU_PERCENT, cpuLock, cpuPc, cpuUsage, netSys,
                   netLocal, os, args, samplePc, stat, published, notifierVars>>

\* line 77: t.net_rx = net_rx
NetWriteRx ==
    /\ netPc = "write_rx"
    /\ G_NET_SPEED' = [G_NET_SPEED EXCEPT !.net_rx = netLocal.net_rx]
    /\ netPc' = "write_tx"
    /\ UNCHANGED <<G_CPU_PERCENT, cpuLock, netLock, cpuPc, cpuUsage, netSys,
                   netLocal, os, args, samplePc, stat, published, notifierVars>>

\* lines 78-79: t.net_tx = net_tx, and the guard is dropped
NetWriteTx ==
    /\ netPc = "write_tx"
    /\ G_NET_SPEED' = [G_NET_SPEED EXCEPT !.net_tx = netLocal.net_tx]
    /\ netLock' = Free
    /\ published' = published \cup {<<G_NET_SPEED.net_rx, netLocal.net_tx>>}
    /\ netPc' = "refresh"
    /\ UNCHANGED <<G_CPU_PERCENT, cpuLock, cpuPc, cpuUsage, netSys,
                   netLocal, os, args, samplePc, stat, notifierVars>>

\* lines 81-82: sys.refresh_networks(), the sleep of SAMPLE_PERIOD, and the loop turns
NetRefresh ==
    /\ netPc = "refresh"
    /\ netSys' \in NetTables
    /\ netPc' = "aggregate"
    /\ UNCHANGED <<G_CPU_PERCENT, G_NET_SPEED, cpuLock, netLock, cpuPc, cpuUsage,
                   netLocal, os, args, samplePc, stat, published, notifierVars>>

\* a holder of the public static G_CPU_PERCENT outside sys_info.rs panics with
\* the guard: the mutex is released and stays poisoned
PoisonCpu ==
    /\ cpuLock = Free
    /\ cpuLock' = Poisoned
    /\ UNCHANGED <<G_CPU_PERCENT, G_NET_SPEED, netLock, cpuPc, cpuUsage, netPc, netSys,
                   netLocal, os, args, samplePc, stat, published, notifierVars>>

\* the same of G_NET_SPEED
PoisonNet ==
    /\ netLock = Free
    /\ netLock' = Poisoned
    /\ UNCHANGED <<G_CPU_PERCENT, G_NET_SPEED, cpuLock, cpuPc, cpuUsage, netPc, netSys,
                   netLocal, os, args, samplePc, stat, published, notifierVars>>

\* line 45: lock() returns Err(PoisonError); the if-let does not match, the guard
\* inside the error is dropped, and the loop goes on to line 49
CpuLockFails ==
    /\ cpuPc = "lock"
    /\ cpuLock = Poisoned
    /\ cpuPc' = "refresh"
    /\ UNCHANGED <<G_CPU_PERCENT, G_NET_SPEED, cpuLock, netLock, cpuUsage, netPc, netSys,
                   netLocal, os, args, samplePc, stat, published, notifierVars>>

\* the sampler writing through the guard it takes out of the PoisonError
NetLockFails_IntoInner ==
    /\ netPc = "lock"
    /\ netLock = Poisoned
    /\ G_NET_SPEED' = netLocal
    /\ netPc' = "refresh"
    /\ UNCHANGED <<G_CPU_PERCENT, cpuLock, netLock, cpuPc, cpuUsage, netSys,
                   netLocal, os, args, samplePc, stat, published, notifierVars>>

\* line 76: lock() returns Err(PoisonError); the if-let does not match and the
\* loop goes on to line 81
NetLockFails ==
    /\ netPc = "lock"
    /\ netLock = Poisoned
    /\ netPc' = "refresh"
    /\ UNCHANGED <<G_CPU_PERCENT, G_NET_SPEED, cpuLock, netLock, cpuPc, cpuUsage, netSys,
                   netLocal, os, args, samplePc, stat, published, notifierVars>>

----------------------------------------------------------------------------
(* client/src/sys_info.rs: sample() *)

G_EXPECT_FS ==
    << <<"a","p","f","s">>, <<"e","x","t","4">>, <<"e","x","t","3">>,
       <<"e","x","t","2">>, <<"f","2","f","s">>,
       <<"r","e","i","s","e","r","f","s">>, <<"j","f","s">>,
       <<"b","t","r","f","s">>, <<"f","u","s","e","b","l","k">>, <<"z","f","s">>,
       <<"s","i","m","f","s">>, <<"n","t","f","s">>, <<"f","a","t","3","2">>,
       <<"e","x","f","a","t">>, <<"x","f","s">>,
       <<"f","u","s","e",".","r","c","l","o","n","e">> >>

\* char::to_lowercase on the letters the modelled file-system names use
LowerChar(c) ==
    CASE c = "N" -> "n" [] c = "T" -> "t" [] c = "F" -> "f" [] c = "S" -> "s"
      [] c = "E" -> "e" [] c = "X" -> "x" [] OTHER -> c

to_lowercase(str) == [i \in 1..Len(str) |-> LowerChar(str[i])]

\* the test taken as membership of the reported name in the list
IsExpectedFs_Exact(file_system) ==
    \E k \in 1..Len(G_EXPECT_FS) : G_EXPECT_FS[k] = file_system

\* line 122-123: G_EXPECT_FS.iter().any(|&k| fs.contains(k)) on the lower-cased name
IsExpectedFs(file_system) ==
    LET fs == to_lowercase(file_system)
    IN  \E k \in 1..Len(G_EXPECT_FS) : contains(fs, G_EXPECT_FS[k])

RECURSIVE SumDisks(_, _)
\* lines 120-127: the sum of one space counter over the disks of an expected file system
SumDisks(disks, counter) ==
    IF disks = <<>> THEN 0
    ELSE (IF IsExpectedFs(Head(disks).file_system) THEN Head(disks)[counter] ELSE 0)
         + SumDisks(Tail(disks), counter)

\* the conversion with the division taken first
KBtoKiB_DivFirst(kb) == (kb \div 1024) * 1000

\* lines 109-112: sysinfo reports KB, the snapshot carries KiB
KBtoKiB(kb) == (kb * 1000) \div 1024

\* u64 subtraction; a negative result d stands for the wrapped value 2^64 + d
u64_sub(a, b) == a - b

\* lines 141-147: the sum of one cumulative counter over the interfaces the rescan
\* does not skip
RescanNet(table, counter) ==
    SumOver({n \in DOMAIN table : ~sample_skips(n)},
            [n \in DOMAIN table |-> table[n][counter]])

\* the collaborator's totals with the live counters added on top
TrafficTotals_Merged(vnstat, vn, table) ==
    [network_in |-> (IF vnstat THEN vn[1] ELSE 0) + RescanNet(table, "total_received"),
     network_out |-> (IF vnstat THEN vn[2] ELSE 0) + RescanNet(table, "total_transmitted")]

\* lines 132-134 and 139-149: network_in and network_out come from
\* get_vnstat_traffic() when args.vnstat is set, from the rescan otherwise
TrafficTotals(vnstat, vn, table) ==
    IF vnstat
    THEN [network_in |-> vn[1], network_out |-> vn[2]]
    ELSE [network_in |-> RescanNet(table, "total_received"),
          network_out |-> RescanNet(table, "total_transmitted")]

\* lines 87-150: everything sample() computes from its own System. A u64
\* subtraction whose result would be negative panics in a build with overflow
\* checks and wraps in one without; the fields assigned before the panic stay
\* assigned.
SampleFacts(r) ==
    /\ samplePc[r] = "idle"
    /\ \E overflow_checks \in (IF args.vnstat THEN BOOLEAN ELSE {FALSE}) :
          LET mem_total == KBtoKiB(os.total_memory)
              mem_used == KBtoKiB(os.used_memory)
              swap_total == KBtoKiB(os.total_swap)
              swap_free == KBtoKiB(os.free_swap)
              hdd_total == SumDisks(os.disks, "total_space")
              hdd_avail == SumDisks(os.disks, "available_space")
              vn == os.vnstat_traffic
              totals == TrafficTotals(args.vnstat, vn, NetTable(os.level))
              s1 == [stat[r] EXCEPT
                       !.vnstat = args.vnstat,
                       !.uptime = os.uptime,
                       !.load_1 = os.load_average[1],
                       !.load_5 = os.load_average[2],
                       !.load_15 = os.load_average[3],
                       !.memory_total = mem_total,
                       !.memory_used = mem_used,
                       !.swap_total = swap_total,
                       !.swap_used = u64_sub(swap_total, swap_free),
                       !.hdd_total = (hdd_total \div 1024) \div 1024,
                       !.hdd_used = (u64_sub(hdd_total, hdd_avail) \div 1024) \div 1024,
                       !.network_in = totals.network_in,
                       !.network_out = totals.network_out]
              s2 == [s1 EXCEPT !.last_network_in = u64_sub(vn[1], vn[3])]
              s3 == [s2 EXCEPT !.last_network_out = u64_sub(vn[2], vn[4])]
          IN  IF ~args.vnstat
              THEN /\ stat' = [stat EXCEPT ![r] = s1]
                   /\ samplePc' = [samplePc EXCEPT ![r] = "cpu_lock"]
              ELSE IF overflow_checks /\ vn[1] < vn[3]
              THEN /\ stat' = [stat EXCEPT ![r] = s1]
                   /\ samplePc' = [samplePc EXCEPT ![r] = "panicked"]
              ELSE IF overflow_checks /\ vn[2] < vn[4]
              THEN /\ stat' = [stat EXCEPT ![r] = s2]
                   /\ samplePc' = [samplePc EXCEPT ![r] = "panicked"]
              ELSE /\ stat' = [stat EXCEPT ![r] = s3]
                   /\ samplePc' = [samplePc EXCEPT ![r] = "cpu_lock"]
    /\ UNCHANGED <<G_CPU_PERCENT, G_NET_SPEED, cpuLock, netLock, cpuPc, cpuUsage, netPc,
                   netSys, netLocal, os, args, published, notifierVars>>

\* line 152: G_CPU_PERCENT.lock()
SampleLockCpu(r) ==
    /\ samplePc[r] = "cpu_lock"
    /\ cpuLock = Free
    /\ cpuLock' = Reader(r)
    /\ samplePc' = [samplePc EXCEPT ![r] = "cpu_read"]
    /\ UNCHANGED <<G_CPU_PERCENT, G_NET_SPEED, netLock, cpuPc, cpuUsage, netPc,
                   netSys, netLocal, os, args, stat, published, notifierVars>>

\* the read taking the value out of the counter and leaving the default behind
SampleReadCpu_Take(r) ==
    /\ samplePc[r] = "cpu_read"
    /\ stat' = [stat EXCEPT ![r].cpu = G_CPU_PERCENT]
    /\ G_CPU_PERCENT' = 0
    /\ cpuLock' = Free
    /\ samplePc' = [samplePc EXCEPT ![r] = "net_lock"]
    /\ UNCHANGED <<G_NET_SPEED, netLock, cpuPc, cpuUsage, netPc,
                   netSys, netLocal, os, args, published, notifierVars>>

\* lines 153-154: stat.cpu = *o, and the guard is dropped
SampleReadCpu(r) ==
    /\ samplePc[r] = "cpu_read"
    /\ stat' = [stat EXCEPT ![r].cpu = G_CPU_PERCENT]
    /\ cpuLock' = Free
    /\ samplePc' = [samplePc EXCEPT ![r] = "net_lock"]
    /\ UNCHANGED <<G_CPU_PERCENT, G_NET_SPEED, netLock, cpuPc, cpuUsage, netPc,
                   netSys, netLocal, os, args, published, notifierVars>>

\* line 155: G_NET_SPEED.lock()
SampleLockNet(r) ==
    /\ samplePc[r] = "net_lock"
    /\ netLock = Free
    /\ netLock' = Reader(r)
    /\ samplePc' = [samplePc EXCEPT ![r] = "net_rx"]
    /\ UNCHANGED <<G_CPU_PERCENT, G_NET_SPEED, cpuLock, cpuPc, cpuUsage, netPc,
                   netSys, netLocal, os, args, stat, published, notifierVars>>

\* line 156: stat.network_rx = o.net_rx
SampleReadRx(r) ==
    /\ samplePc[r] = "net_rx"
    /\ stat' = [stat EXCEPT ![r].network_rx = G_NET_SPEED.net_rx]
    /\ samplePc' = [samplePc EXCEPT ![r] = "net_tx"]
    /\ UNCHANGED <<G_CPU_PERCENT, G_NET_SPEED, cpuLock, netLock, cpuPc, cpuUsage, netPc,
                   netSys, netLocal, os, args, published, notifierVars>>

\* lines 157-159: stat.network_tx = o.net_tx, the guard is dropped, sample() returns
SampleReadTx(r) ==
    /\ samplePc[r] = "net_tx"
    /\ stat' = [stat EXCEPT ![r].network_tx = G_NET_SPEED.net_tx]
    /\ netLock' = Free
    /\ samplePc' = [samplePc EXCEPT ![r] = "idle"]
    /\ UNCHANGED <<G_CPU_PERCENT, G_NET_SPEED, cpuLock, cpuPc, cpuUsage, netPc,
                   netSys, netLocal, os, args, published, notifierVars>>

\* line 152: lock() returns Err(PoisonError) and the if-let does not match
SampleLockCpuFails(r) ==
    /\ samplePc[r] = "cpu_lock"
    /\ cpuLock = Poisoned
    /\ samplePc' = [samplePc EXCEPT ![r] = "cpu_err"]
    /\ UNCHANGED <<G_CPU_PERCENT, G_NET_SPEED, cpuLock, netLock, cpuPc, cpuUsage, netPc,
                   netSys, netLocal, os, args, stat, published, notifierVars>>

\* line 154: the block of the if-let is passed over
SampleSkipCpu(r) ==
    /\ samplePc[r] = "cpu_err"
    /\ samplePc' = [samplePc EXCEPT ![r] = "net_lock"]
    /\ UNCHANGED <<G_CPU_PERCENT, G_NET_SPEED, cpuLock, netLock, cpuPc, cpuUsage, netPc,
                   netSys, netLocal, os, args, stat, published, notifierVars>>

\* line 155: lock() returns Err(PoisonError) and the if-let does not match
SampleLockNetFails(r) ==
    /\ samplePc[r] = "net_lock"
    /\ netLock = Poisoned
    /\ samplePc' = [samplePc EXCEPT ![r] = "net_err"]
    /\ UNCHANGED <<G_CPU_PERCENT, G_NET_SPEED, cpuLock, netLock, cpuPc, cpuUsage, netPc,
                   netSys, netLocal, os, args, stat, published, notifierVars>>

\* lines 158-159: the block of the if-let is passed over and sample() returns
SampleSkipNet(r) ==
    /\ samplePc[r] = "net_err"
    /\ samplePc' = [samplePc EXCEPT ![r] = "idle"]
    /\ UNCHANGED <<G_CPU_PERCENT, G_NET_SPEED, cpuLock, netLock, cpuPc, cpuUsage, netPc,
                   netSys, netLocal, os, args, stat, published, notifierVars>>

----------------------------------------------------------------------------
(* The facts an OS can report, and the initial states *)

tmpfs == <<"t","m","p","f","s">>
ext4 == <<"e","x","t","4">>
NTFS == <<"N","T","F","S">>
ntfs3 == <<"n","t","f","s","3">>
MiB == 1024 * 1024

DiskLists ==
    { <<>>,
      << [file_system |-> ext4, total_space |-> 8 * MiB, available_space |-> 3 * MiB],
         [file_system |-> tmpfs, total_space |-> 64 * MiB, available_space |-> 64 * MiB] >>,
      << [file_system |-> NTFS, total_space |-> 5 * MiB + 1, available_space |-> 0],
         [file_system |-> ext4, total_space |-> 2 * MiB, available_space |-> MiB],
         [file_system |-> ntfs3, total_space |-> 4 * MiB, available_space |-> MiB] >> }

\* memory and swap sizes in KB
MemValues == {0, 1023, 1024, 1000000}

\* get_vnstat_traffic(): (network_in, network_out, m_network_in, m_network_out)
VnstatTraffic ==
    { <<0, 0, 0, 0>>, <<500, 700, 100, 200>>, <<500, 700, 500, 700>>,
      <<100, 200, 500, 700>>, <<500, 200, 100, 700>> }

\* a host has memory; it may have no swap
OsFacts ==
    { f \in [total_memory : MemValues \ {0, 1023}, used_memory : MemValues,
             total_swap : MemValues \ {1000000}, free_swap : MemValues,
             disks : DiskLists, uptime : {7}, load_average : {<<1, 2, 3>>},
             vnstat_traffic : VnstatTraffic, level : 0..MaxLevel] :
        /\ f.used_memory <= f.total_memory
        /\ f.free_swap <= f.total_swap }

\* StatRequest::default()
DefaultStat ==
    [vnstat |-> FALSE, uptime |-> 0, load_1 |-> 0, load_5 |-> 0, load_15 |-> 0,
     memory_total |-> 0, memory_used |-> 0, swap_total |-> 0, swap_used |-> 0,
     hdd_total |-> 0, hdd_used |-> 0, network_in |-> 0, network_out |-> 0,
     last_network_in |-> 0, last_network_out |-> 0,
     cpu |-> 0, network_rx |-> 0, network_tx |-> 0]

\* the statics after lazy initialisation, the samplers started (lines 38, 41-42,
\* 61, 65-66), no sample() call running
SamplerInit ==
    /\ G_CPU_PERCENT = 0
    /\ G_NET_SPEED = [net_rx |-> 0, net_tx |-> 0]
    /\ cpuLock = Free
    /\ netLock = Free
    /\ cpuPc = "lock"
    /\ cpuUsage \in CpuUsages
    /\ netPc = "aggregate"
    /\ netSys \in NetTables
    /\ netLocal = [net_rx |-> 0, net_tx |-> 0]
    /\ samplePc = [r \in Readers |-> "idle"]
    /\ stat = [r \in Readers |-> DefaultStat]
    /\ published = {<<0, 0>>}

----------------------------------------------------------------------------
(* server/src/notifier: the template store, as email.rs and wechat.rs use it *)

Email == "email"
WeChat == "wechat"
Events == {"NodeUp", "NodeDown", "Custom"}

\* get_tag(&Event)
get_tag(e) ==
    CASE e = "NodeUp" -> "online" [] e = "NodeDown" -> "offline" [] e = "Custom" -> "custom"

TemplateKeys == {<<Email, "online">>, <<Email, "offline">>, <<Email, "custom">>,
                 <<WeChat, "custom">>}
NoTemplate == "no_template"

\* what a template source does when it is registered and rendered
TemplateSources == {"bad_syntax", "missing_field", "renders_empty", "renders_text"}

\* add_template: a source with invalid syntax is rejected and nothing is stored;
\* otherwise the last write wins
add_template(store, key, source) ==
    IF source = "bad_syntax"
    THEN [ok |-> FALSE, store |-> store]
    ELSE [ok |-> TRUE, store |-> [store EXCEPT ![key] = source]]

\* render_template: Err when no template is registered for the key or a field the
\* template references is absent; Ok(content) otherwise
render_template(store, key) ==
    CASE store[key] = NoTemplate -> [ok |-> FALSE, error |-> "no_template", content |-> <<>>]
      [] store[key] = "missing_field" -> [ok |-> FALSE, error |-> "missing_field", content |-> <<>>]
      [] store[key] = "renders_empty" -> [ok |-> TRUE, error |-> "none", content |-> <<>>]
      [] store[key] = "renders_text" -> [ok |-> TRUE, error |-> "none", content |-> <<key[1], key[2]>>]

EmptyStore == [k \in TemplateKeys |-> NoTemplate]

\* Email::new: three registrations whose outcome the constructor does not inspect
Email_new(store, cfg) ==
    LET s1 == add_template(store, <<Email, get_tag("NodeUp")>>, cfg.online_tpl).store
        s2 == add_template(s1, <<Email, get_tag("NodeDown")>>, cfg.offline_tpl).store
        s3 == add_template(s2, <<Email, get_tag("Custom")>>, cfg.custom_tpl).store
    IN  [constructed |-> TRUE, store |-> s3]

\* WeChat::new: add_template(..).unwrap() panics when the registration fails
WeChat_new(store, cfg) ==
    LET r == add_template(store, <<WeChat, "custom">>, cfg.custom_tpl)
    IN  [constructed |-> r.ok, store |-> r.store]

\* the configurations drawn: the two status templates of a configuration are of
\* the same sort (Email::notify handles NodeUp and NodeDown in one match arm)
EmailConfigs ==
    {c \in [enabled : BOOLEAN, online_tpl : TemplateSources,
            offline_tpl : TemplateSources, custom_tpl : TemplateSources] :
        c.online_tpl = c.offline_tpl}
WeChatConfigs == [enabled : BOOLEAN, custom_tpl : TemplateSources]

\* the server's start-up: a channel is constructed when its configuration enables it
Construct(ecfg, wcfg) ==
    LET e == IF ecfg.enabled THEN Email_new(EmptyStore, ecfg)
             ELSE [constructed |-> FALSE, store |-> EmptyStore]
        w == IF wcfg.enabled THEN WeChat_new(e.store, wcfg)
             ELSE [constructed |-> FALSE, store |-> e.store]
    IN  [started |-> wcfg.enabled => w.constructed,
         store |-> w.store,
         channels |-> (IF e.constructed THEN {Email} ELSE {})
                      \cup (IF w.constructed THEN {WeChat} ELSE {})]

----------------------------------------------------------------------------
(* server/src/notifier: notify, notify_test and send_msg of the two channels *)

NoCall == [id |-> 0]

\* a delivery task as handle.spawn() leaves it: not yet polled
NewTask(chan, call, content) ==
    [chan |-> chan, call |-> call, content |-> content, pc |-> "spawned",
     token |-> <<>>, result |-> "none"]

\* send_msg waiting for the delivery task before it returns
Email_send_msg_Blocking(call, html_content) ==
    [result |-> "Ok", spawn |-> <<NewTask(Email, call, html_content)>>, join |-> TRUE]

\* Email::send_msg: builds the message, spawns the delivery task, drops its
\* JoinHandle and returns Ok(()) (the addresses of the configuration parse and
\* NOTIFIER_HANDLE is set)
Email_send_msg(call, html_content) ==
    [result |-> "Ok", spawn |-> <<NewTask(Email, call, html_content)>>, join |-> FALSE]

\* WeChat::send_msg: spawns the delivery task, drops its JoinHandle, returns Ok(())
WeChat_send_msg(call, text_content) ==
    [result |-> "Ok", spawn |-> <<NewTask(WeChat, call, text_content)>>, join |-> FALSE]

\* a call that sends nothing
NoSend(result) == [result |-> result, spawn |-> <<>>, join |-> FALSE]

\* Email::notify_test
Email_notify_test(call) ==
    [render |-> "none", content |-> <<"test">>] @@ Email_send_msg(call, <<"test">>)

\* notify sending a default body when rendering fails
Email_notify_SendsOnError(store, call, e) ==
    LET r == render_template(store, <<Email, get_tag(e)>>)
        rendered == [render |-> IF r.ok THEN "ok" ELSE r.error, content |-> r.content]
    IN  rendered @@ Email_send_msg(call, <<"title">> \o r.content)

\* Email::notify
Email_notify(store, call, e) ==
    LET r == render_template(store, <<Email, get_tag(e)>>)
        rendered == [render |-> IF r.ok THEN "ok" ELSE r.error, content |-> r.content]
    IN  IF e \in {"NodeUp", "NodeDown"}
        THEN \* .map(|content| self.send_msg(content)).unwrap()
             IF r.ok
             THEN rendered @@ Email_send_msg(call, r.content)
             ELSE rendered @@ NoSend("panic")
        ELSE \* .map(|content| if !content.is_empty() { send_msg(..).unwrap_or_else(..) })
             IF r.ok
             THEN IF r.content # <<>>
                  THEN rendered @@ [Email_send_msg(call, <<"title">> \o r.content)
                                      EXCEPT !.result = "Ok"]
                  ELSE rendered @@ NoSend("Ok")
             ELSE rendered @@ NoSend("Err")

\* custom_notify without the test for empty content
WeChat_custom_notify_NoEmptyTest(store, call) ==
    LET r == render_template(store, <<WeChat, "custom">>)
        rendered == [render |-> IF r.ok THEN "ok" ELSE r.error, content |-> r.content]
    IN  IF r.ok
        THEN rendered @@ [WeChat_send_msg(call, <<"Server Status">> \o r.content)
                            EXCEPT !.result = "Ok"]
        ELSE rendered @@ NoSend("Err")

\* WeChat::custom_notify
WeChat_custom_notify(store, call) ==
    LET r == render_template(store, <<WeChat, "custom">>)
        rendered == [render |-> IF r.ok THEN "ok" ELSE r.error, content |-> r.content]
    IN  IF r.ok
        THEN IF r.content # <<>>
             THEN rendered @@ [WeChat_send_msg(call, <<"Server Status">> \o r.content)
                                 EXCEPT !.result = "Ok"]
             ELSE rendered @@ NoSend("Ok")
        ELSE rendered @@ NoSend("Err")

\* WeChat::notify: the result of send_msg and of custom_notify is discarded
WeChat_notify(store, call, e) ==
    CASE e = "NodeUp" ->
            [render |-> "none", content |-> <<"Server Status", "online">>]
            @@ [WeChat_send_msg(call, <<"Server Status", "online">>) EXCEPT !.result = "Ok"]
      [] e = "NodeDown" ->
            [render |-> "none", content |-> <<"Server Status", "offline">>]
            @@ [WeChat_send_msg(call, <<"Server Status", "offline">>) EXCEPT !.result = "Ok"]
      [] e = "Custom" ->
            [WeChat_custom_notify(store, call) EXCEPT !.result = "Ok"]

\* a runtime that puts the newest task first
Spawn_Lifo(ts, new) == new \o ts

\* handle.spawn(): the task joins the runtime's tasks behind those spawned before
Spawn(ts, new) == ts \o new

\* the orders in which a dispatch may go through the channels
Orders(S) == {o \in UNION {[1..n -> S] : n \in 0..2} :
                /\ Len(o) = Cardinality(S)
                /\ \A c \in S : \E i \in 1..Len(o) : o[i] = c}

\* dispatch(event, hoststat) begins: every constructed channel is to be invoked
Dispatch(e, order) ==
    /\ caller.pc = "idle"
    /\ order \in Orders(channels)
    /\ order # <<>>
    /\ caller.n + Len(order) <= MaxCalls
    /\ caller' = [pc |-> "dispatching", event |-> e, queue |-> order,
                  n |-> caller.n + Len(order)]
    /\ UNCHANGED <<templates, channels, cur, calls, tasks, wire, samplerVars>>

\* what the call of one channel's notify does up to its return
NotifyOutcome(c, call, e) ==
    IF c = Email THEN Email_notify(templates, call, e) ELSE WeChat_notify(templates, call, e)

\* the dispatch invokes notify on the next channel
NotifyCall ==
    /\ caller.pc = "dispatching"
    /\ cur = NoCall
    /\ caller.queue # <<>>
    /\ LET c == Head(caller.queue)
           id == Len(calls) + 1
           out == NotifyOutcome(c, id, caller.event)
       IN  /\ cur' = [id |-> id, chan |-> c, op |-> "notify", event |-> caller.event,
                      render |-> out.render, content |-> out.content,
                      result |-> out.result, join |-> out.join,
                      spawned |-> Len(out.spawn)]
           /\ tasks' = Spawn(tasks, out.spawn)
    /\ caller' = [caller EXCEPT !.queue = Tail(caller.queue)]
    /\ UNCHANGED <<templates, channels, calls, wire, samplerVars>>

\* an operator calls Email::notify_test
NotifyTestCall ==
    /\ caller.pc = "idle"
    /\ caller.n < MaxCalls
    /\ Email \in channels
    /\ LET id == Len(calls) + 1
           out == Email_notify_test(id)
       IN  /\ cur' = [id |-> id, chan |-> Email, op |-> "notify_test", event |-> "none",
                      render |-> out.render, content |-> out.content,
                      result |-> out.result, join |-> out.join,
                      spawned |-> Len(out.spawn)]
           /\ tasks' = Spawn(tasks, out.spawn)
    /\ caller' = [pc |-> "testing", event |-> "none", queue |-> <<>>, n |-> caller.n + 1]
    /\ UNCHANGED <<templates, channels, calls, wire, samplerVars>>

\* the tasks a call spawned
TasksOf(id) == {t \in 1..Len(tasks) : tasks[t].call = id}

\* the executing call returns to its caller, or its panic unwinds the caller
NotifyReturn ==
    /\ cur # NoCall
    /\ cur.join => \A t \in TasksOf(cur.id) : tasks[t].pc = "done"
    /\ calls' = Append(calls, cur)
    /\ cur' = NoCall
    /\ caller' = IF cur.result = "panic" THEN [caller EXCEPT !.pc = "panicked"]
                 ELSE IF caller.queue = <<>> THEN [caller EXCEPT !.pc = "idle"]
                 ELSE caller
    /\ UNCHANGED <<templates, channels, tasks, wire, samplerVars>>

----------------------------------------------------------------------------
(* server/src/notifier: the delivery tasks on the runtime behind NOTIFIER_HANDLE *)

\* a request as the remote sees it: the call it stems from, its kind and the
\* access_token in its URL
Request(t, kind, token) == [call |-> tasks[t].call, kind |-> kind, token |-> token]

\* email.rs lines 82-89: the task builds the mailer and starts mailer.send(email)
EmailSmtpSend(t) ==
    /\ tasks[t].chan = Email
    /\ tasks[t].pc = "spawned"
    /\ tasks' = [tasks EXCEPT ![t].pc = "smtp_wait"]
    /\ wire' = [wire EXCEPT ![Email] = Append(@, Request(t, "smtp", <<>>))]
    /\ UNCHANGED <<templates, channels, caller, cur, calls, samplerVars>>

\* the error arm starting the send over
EmailSmtpResp_Retry(t, ok) ==
    /\ tasks[t].chan = Email
    /\ tasks[t].pc = "smtp_wait"
    /\ tasks' = IF ok THEN [tasks EXCEPT ![t].pc = "done", ![t].result = "delivered"]
                ELSE [tasks EXCEPT ![t].pc = "spawned"]
    /\ UNCHANGED <<templates, channels, caller, cur, calls, wire, samplerVars>>

\* the error arm bringing the process down instead of logging
EmailSmtpResp_Abort(t, ok) ==
    /\ tasks[t].chan = Email
    /\ tasks[t].pc = "smtp_wait"
    /\ tasks' = [tasks EXCEPT ![t].pc = "done",
                              ![t].result = IF ok THEN "delivered" ELSE "failed"]
    /\ caller' = IF ok THEN caller ELSE [caller EXCEPT !.pc = "panicked"]
    /\ UNCHANGED <<templates, channels, cur, calls, wire, samplerVars>>

\* email.rs lines 89-96: the send completes; either arm only logs
EmailSmtpResp(t, ok) ==
    /\ tasks[t].chan = Email
    /\ tasks[t].pc = "smtp_wait"
    /\ tasks' = [tasks EXCEPT ![t].pc = "done",
                              ![t].result = IF ok THEN "delivered" ELSE "failed"]
    /\ UNCHANGED <<templates, channels, caller, cur, calls, wire, samplerVars>>

\* wechat.rs lines 70-75: the task posts the credentials to TOKEN_URL
WeChatTokenPost(t) ==
    /\ tasks[t].chan = WeChat
    /\ tasks[t].pc = "spawned"
    /\ tasks' = [tasks EXCEPT ![t].pc = "token_wait"]
    /\ wire' = [wire EXCEPT ![WeChat] = Append(@, Request(t, "token", <<>>))]
    /\ UNCHANGED <<templates, channels, caller, cur, calls, samplerVars>>

\* what the token request can come back with
TokenResponses == {"error", "not_json", "no_access_token", "token_not_a_string", "token"}

\* the string access_token of a well-formed answer: the remote issues one of its
\* own to every token request
IssuedToken(t) == <<"access_token", tasks[t].call>>

\* the task going on to the message POST after any answer at all, with whatever
\* it took for a token
WeChatTokenResp_AnyAnswer(t, resp) ==
    /\ tasks[t].chan = WeChat
    /\ tasks[t].pc = "token_wait"
    /\ IF resp # "error"
       THEN LET token == IF resp = "token" THEN IssuedToken(t) ELSE <<>>
            IN  /\ tasks' = [tasks EXCEPT ![t].pc = "msg_wait", ![t].token = token]
                /\ wire' = [wire EXCEPT ![WeChat] = Append(@, Request(t, "message", token))]
       ELSE /\ tasks' = [tasks EXCEPT ![t].pc = "done", ![t].result = "failed"]
            /\ wire' = wire
    /\ UNCHANGED <<templates, channels, caller, cur, calls, samplerVars>>

\* wechat.rs lines 76-102 and 115-117: only a JSON body with a string access_token
\* leads to the message POST, whose URL carries that token; every other outcome
\* ends the task
WeChatTokenResp(t, resp) ==
    /\ tasks[t].chan = WeChat
    /\ tasks[t].pc = "token_wait"
    /\ IF resp = "token"
       THEN /\ tasks' = [tasks EXCEPT ![t].pc = "msg_wait", ![t].token = IssuedToken(t)]
            /\ wire' = [wire EXCEPT ![WeChat] =
                                     Append(@, Request(t, "message", IssuedToken(t)))]
       ELSE /\ tasks' = [tasks EXCEPT ![t].pc = "done", ![t].result = "failed"]
            /\ wire' = wire
    /\ UNCHANGED <<templates, channels, caller, cur, calls, samplerVars>>

\* the token request built without a timeout: no deadline ever elapses
WeChatTokenTimeout_Unset(t) ==
    /\ tasks[t].chan = WeChat
    /\ tasks[t].pc = "token_wait"
    /\ FALSE
    /\ UNCHANGED vars

\* wechat.rs line 72: the 5 seconds of .timeout() elapse before the remote has
\* answered; send() or json() returns Err and the task ends
WeChatTokenTimeout(t) ==
    /\ tasks[t].chan = WeChat
    /\ tasks[t].pc = "token_wait"
    /\ tasks' = [tasks EXCEPT ![t].pc = "done", ![t].result = "failed"]
    /\ UNCHANGED <<templates, channels, caller, cur, calls, wire, samplerVars>>

\* wechat.rs lines 103-110: the message POST completes; either arm only logs
WeChatMsgResp(t, ok) ==
    /\ tasks[t].chan = WeChat
    /\ tasks[t].pc = "msg_wait"
    /\ tasks' = [tasks EXCEPT ![t].pc = "done",
                              ![t].result = IF ok THEN "delivered" ELSE "failed"]
    /\ UNCHANGED <<templates, channels, caller, cur, calls, wire, samplerVars>>

\* wechat.rs line 99: the 5 seconds of .timeout() elapse on the message POST; the
\* Err arm logs and the task ends
WeChatMsgTimeout(t) ==
    /\ tasks[t].chan = WeChat
    /\ tasks[t].pc = "msg_wait"
    /\ tasks' = [tasks EXCEPT ![t].pc = "done", ![t].result = "failed"]
    /\ UNCHANGED <<templates, channels, caller, cur, calls, wire, samplerVars>>

----------------------------------------------------------------------------
(* Initial states and specifications *)

\* the notifier after the channels were constructed from their configurations
NotifierInit ==
    /\ \E ecfg \in EmailConfigs, wcfg \in WeChatConfigs :
          LET c == Construct(ecfg, wcfg)
          IN  /\ c.started
              /\ templates = c.store
              /\ channels = c.channels
    /\ caller = [pc |-> "idle", event |-> "none", queue |-> <<>>, n |-> 0]
    /\ cur = NoCall
    /\ calls = <<>>
    /\ tasks = <<>>
    /\ wire = [c \in {Email, WeChat} |-> <<>>]

\* the notifier side while only the client is examined
NotifierQuiet ==
    /\ templates = EmptyStore
    /\ channels = {}
    /\ caller = [pc |-> "idle", event |-> "none", queue |-> <<>>, n |-> 0]
    /\ cur = NoCall
    /\ calls = <<>>
    /\ tasks = <<>>
    /\ wire = [c \in {Email, WeChat} |-> <<>>]

\* the client side while only the notifier is examined
SamplerQuiet ==
    /\ SamplerInit
    /\ cpuUsage = 4
    /\ netSys = NetTable(0)

DefaultOs ==
    [total_memory |-> 1000000, used_memory |-> 1024, total_swap |-> 1024,
     free_swap |-> 1023, disks |-> <<>>, uptime |-> 7, load_average |-> <<1, 2, 3>>,
     vnstat_traffic |-> <<0, 0, 0, 0>>, level |-> 1]

CpuSamplerNext == CpuLock \/ CpuWrite \/ CpuRefresh
NetSamplerNext ==
    NetAggregate \/ NetLock \/ NetWriteRx \/ NetWriteTx \/ NetRefresh
SampleNext ==
    \E r \in Readers :
        \/ SampleFacts(r)
        \/ SampleLockCpu(r)
        \/ SampleReadCpu(r)
        \/ SampleLockNet(r)
        \/ SampleReadRx(r)
        \/ SampleReadTx(r)

\* Spec: the sampler threads and the sample() callers of one client
Init ==
    /\ SamplerInit
    /\ os = DefaultOs
    /\ args = [vnstat |-> FALSE]
    /\ NotifierQuiet
Next == CpuSamplerNext \/ NetSamplerNext \/ SampleNext
Spec == Init /\ [][Next]_vars

\* the steps of a sample() call that is under way
SampleProgress(r) ==
    \/ SampleLockCpu(r)
    \/ SampleReadCpu(r)
    \/ SampleLockNet(r)
    \/ SampleReadRx(r)
    \/ SampleReadTx(r)

\* FairSpec: Spec under a scheduler that runs every thread that can run, and
\* mutexes that let in a thread that finds them free again and again (each
\* sampler sleeps SAMPLE_PERIOD between two acquisitions)
FairSpec ==
    /\ Spec
    /\ SF_vars(CpuSamplerNext)
    /\ SF_vars(NetSamplerNext)
    /\ \A r \in Readers : SF_vars(SampleProgress(r))

\* PoisonSpec: Spec with the two mutexes open to poisoning by a holder outside
\* sys_info.rs
PoisonNext ==
    \/ PoisonCpu
    \/ PoisonNet
    \/ CpuLockFails
    \/ NetLockFails
    \/ \E r \in Readers :
          \/ SampleLockCpuFails(r)
          \/ SampleSkipCpu(r)
          \/ SampleLockNetFails(r)
          \/ SampleSkipNet(r)
PoisonSpec == Init /\ [][Next \/ PoisonNext]_vars

\* SampleSpec: sample() on every modelled combination of OS facts
SampleInit ==
    /\ SamplerQuiet
    /\ os \in OsFacts
    /\ args \in [vnstat : BOOLEAN]
    /\ NotifierQuiet
SampleSpec == SampleInit /\ [][SampleNext]_vars

\* NotifySpec: the dispatcher thread and the delivery tasks of one server
NotifyInit ==
    /\ SamplerQuiet
    /\ os = DefaultOs
    /\ args = [vnstat |-> FALSE]
    /\ NotifierInit
CallerNext ==
    \/ \E e \in Events, order \in Orders(channels) : Dispatch(e, order)
    \/ NotifyCall
    \/ NotifyTestCall
    \/ NotifyReturn
TaskNext ==
    \E t \in 1..Len(tasks) :
        \/ EmailSmtpSend(t)
        \/ \E ok \in BOOLEAN : EmailSmtpResp(t, ok)
        \/ WeChatTokenPost(t)
        \/ \E resp \in TokenResponses : WeChatTokenResp(t, resp)
        \/ WeChatTokenTimeout(t)
        \/ \E ok \in BOOLEAN : WeChatMsgResp(t, ok)
        \/ WeChatMsgTimeout(t)
NotifyNext == CallerNext \/ TaskNext
NotifySpec == NotifyInit /\ [][NotifyNext]_vars

\* what the runtime and the clock guarantee of a WeChat delivery task: a spawned
\* task is polled, and a pending request meets its deadline
WeChatProgress ==
    \E t \in 1..Len(tasks) :
        WeChatTokenPost(t) \/ WeChatTokenTimeout(t) \/ WeChatMsgTimeout(t)

\* WeChatFairSpec: a server whose configuration enables the WeChat channel alone,
\* on a runtime that keeps polling and a clock that keeps running; the remote is
\* under no obligation to answer
WeChatOnlyInit == NotifyInit /\ channels = {WeChat}
WeChatCallerNext ==
    \/ \E e \in Events, order \in Orders(channels) : Dispatch(e, order)
    \/ NotifyCall
    \/ NotifyReturn
WeChatTaskNext ==
    \E t \in 1..Len(tasks) :
        \/ WeChatTokenPost(t)
        \/ \E resp \in TokenResponses : WeChatTokenResp(t, resp)
        \/ WeChatTokenTimeout(t)
        \/ \E ok \in BOOLEAN : WeChatMsgResp(t, ok)
        \/ WeChatMsgTimeout(t)
WeChatNext == WeChatCallerNext \/ WeChatTaskNext
WeChatFairSpec == WeChatOnlyInit /\ [][WeChatNext]_vars /\ WF_vars(WeChatProgress)

----------------------------------------------------------------------------
(* Properties of the sampler and of sample() *)

\* C1: the (network_rx, network_tx) pair a sample() call copied into its snapshot is
\* the pair one sampler cycle published (or the initial 0, 0), never rx of one cycle
\* with tx of another; whenever a reader holds the counter's lock the counter itself
\* holds such a pair; the CPU value copied is a value the CPU sampler rounds to.
C1_SnapshotNeverTorn ==
    /\ \A r \in Readers :
          /\ samplePc[r] = "idle"
                => <<stat[r].network_rx, stat[r].network_tx>> \in published
          /\ netLock = Reader(r)
                => <<G_NET_SPEED.net_rx, G_NET_SPEED.net_tx>> \in published
          /\ samplePc[r] = "net_tx"
                => \E pr \in published : pr[1] = stat[r].network_rx /\ pr[2] = G_NET_SPEED.net_tx
          /\ stat[r].cpu \in {0} \cup {round(u) : u \in CpuUsages}

\* a snapshot holds a whole published pair of an earlier cycle while the sampler,
\* holding the lock, has written rx of the next cycle but not yet tx
C1_Witness ==
    \E r \in Readers :
        /\ samplePc[r] = "idle"
        /\ stat[r].network_rx # 0
        /\ netPc = "write_tx"
        /\ <<G_NET_SPEED.net_rx, G_NET_SPEED.net_tx>> \notin published

\* a sample() call has computed its one-shot facts from the OS facts of this state
FactsTaken(r) == samplePc[r] # "idle"

\* C9 as stated: 1,000,000 KB of memory yields a memory field of 976
C9_Original ==
    \A r \in Readers :
        (FactsTaken(r) /\ os.total_memory = 1000000) => stat[r].memory_total = 976

\* f is the floor of v * 1000 / 1024
IsFloorKiB(f, v) == 1024 * f <= 1000 * v /\ 1000 * v < 1024 * (f + 1)

\* C9 amended: 1,000,000 KB yields 976,562 KiB; memory_total, memory_used and
\* swap_total are the floor of the OS value times 1000 / 1024, and swap_used is
\* swap_total less the floor of the free swap converted the same way.
C9_KiBConversion ==
    \A r \in Readers :
        FactsTaken(r) =>
            /\ os.total_memory = 1000000 => stat[r].memory_total = 976562
            /\ os.used_memory = 1024 => stat[r].memory_used = 1000
            /\ os.total_swap = 1023 => stat[r].swap_total = 999
            /\ IsFloorKiB(stat[r].memory_total, os.total_memory)
            /\ IsFloorKiB(stat[r].memory_used, os.used_memory)
            /\ IsFloorKiB(stat[r].swap_total, os.total_swap)
            /\ IsFloorKiB(stat[r].swap_total - stat[r].swap_used, os.free_swap)

C9_Witness ==
    \E r \in Readers :
        /\ FactsTaken(r)
        /\ os.total_memory = 1000000
        /\ stat[r].memory_total = 976562
        /\ os.free_swap = 1023
        /\ stat[r].swap_used = 1

OnAllowList(file_system) == \E k \in 1..Len(G_EXPECT_FS) : G_EXPECT_FS[k] = file_system

\* the disks of a list that satisfy a test, by position, and their summed counter
DisksWhere(disks, Test(_)) == {i \in 1..Len(disks) : Test(disks[i].file_system)}
DiskSum(disks, S, counter) == SumOver(S, [i \in 1..Len(disks) |-> disks[i][counter]])

\* total is sum \div MiB, the division of lines 128-129 taken twice by 1024
IsFloorMiB(total, sum) == MiB * total <= sum /\ sum < MiB * (total + 1)

\* C11 as stated: a disk contributes its total and available space to hdd_total and
\* hdd_used exactly when the file-system type it reports is an entry of the
\* allow-list.
C11_Original ==
    \A r \in Readers :
        FactsTaken(r) =>
            LET S == DisksWhere(os.disks, OnAllowList)
            IN  /\ IsFloorMiB(stat[r].hdd_total, DiskSum(os.disks, S, "total_space"))
                /\ IsFloorMiB(stat[r].hdd_used,
                              DiskSum(os.disks, S, "total_space")
                              - DiskSum(os.disks, S, "available_space"))

\* the reported name, lower-cased, has an entry of the allow-list as a substring
MatchesAllowList(file_system) ==
    \E k \in 1..Len(G_EXPECT_FS) :
        LET e == G_EXPECT_FS[k]
        IN  \E i \in 0..(Len(file_system) - Len(e)) :
               \A j \in 1..Len(e) : LowerChar(file_system[i + j]) = e[j]

\* C11 amended: a disk contributes its total and available space to hdd_total and
\* hdd_used exactly when its file-system name, lower-cased, contains an entry of
\* the allow-list: "tmpfs" is excluded, "ext4" is included, and so are "NTFS" and
\* "ntfs3"; hdd_total and hdd_used are the sums in MiB, rounded down.
C11_FsFiltering ==
    /\ ~MatchesAllowList(tmpfs) /\ MatchesAllowList(ext4)
    /\ MatchesAllowList(NTFS) /\ MatchesAllowList(ntfs3)
    /\ \A r \in Readers :
          FactsTaken(r) =>
             LET S == DisksWhere(os.disks, MatchesAllowList)
             IN  /\ IsFloorMiB(stat[r].hdd_total, DiskSum(os.disks, S, "total_space"))
                 /\ IsFloorMiB(stat[r].hdd_used,
                               DiskSum(os.disks, S, "total_space")
                               - DiskSum(os.disks, S, "available_space"))
                 /\ (Len(os.disks) = 2 /\ os.disks[2].file_system = tmpfs)
                       => (stat[r].hdd_total = 8 /\ stat[r].hdd_used = 5)
                 /\ (Len(os.disks) = 3 /\ os.disks[1].file_system = NTFS
                     /\ os.disks[3].file_system = ntfs3)
                       => (stat[r].hdd_total = 11 /\ stat[r].hdd_used = 9)

\* sample() has summed an ext4 disk and left out the tmpfs disk beside it
C11_Witness ==
    \E r \in Readers :
        /\ FactsTaken(r)
        /\ Len(os.disks) = 2
        /\ os.disks[1].file_system = ext4 /\ os.disks[2].file_system = tmpfs
        /\ stat[r].hdd_total = 8
        /\ stat[r].hdd_used = 5

\* C15: with a counter's mutex poisoned, a sampler whose lock() fails leaves the
\* counter as it was and goes straight on to its refresh and sleep; the counter
\* keeps the value last published from then on; a sample() call whose lock()
\* fails changes nothing of its snapshot at that step and goes on to its next
\* step, up to its return.
C15_StaleButAvailable ==
    [][/\ (cpuPc = "lock" /\ cpuLock = Poisoned /\ cpuPc' # cpuPc)
            => (cpuPc' = "refresh" /\ G_CPU_PERCENT' = G_CPU_PERCENT)
       /\ (netPc = "lock" /\ netLock = Poisoned /\ netPc' # netPc)
            => (netPc' = "refresh" /\ G_NET_SPEED' = G_NET_SPEED)
       /\ cpuLock = Poisoned => G_CPU_PERCENT' = G_CPU_PERCENT
       /\ netLock = Poisoned
            => /\ G_NET_SPEED' = G_NET_SPEED
               /\ <<G_NET_SPEED.net_rx, G_NET_SPEED.net_tx>> \in published
       /\ \A r \in Readers :
             /\ (samplePc[r] = "cpu_lock" /\ cpuLock = Poisoned /\ samplePc'[r] # samplePc[r])
                  => (samplePc'[r] = "cpu_err" /\ stat'[r] = stat[r])
             /\ (samplePc[r] = "cpu_err" /\ samplePc'[r] # samplePc[r])
                  => (samplePc'[r] = "net_lock" /\ stat'[r] = stat[r])
             /\ (samplePc[r] = "net_lock" /\ netLock = Poisoned /\ samplePc'[r] # samplePc[r])
                  => (samplePc'[r] = "net_err" /\ stat'[r] = stat[r])
             /\ (samplePc[r] = "net_err" /\ samplePc'[r] # samplePc[r])
                  => (samplePc'[r] = "idle" /\ stat'[r] = stat[r])]_vars

\* the network sampler has passed a failed lock() with a fresh aggregate while the
\* counter keeps an earlier published pair, and a sample() call whose lock() of
\* the CPU counter failed keeps a CPU value other than the counter's
C15_Witness ==
    /\ netLock = Poisoned
    /\ netPc = "refresh"
    /\ G_NET_SPEED.net_rx # 0
    /\ netLocal.net_rx # G_NET_SPEED.net_rx
    /\ \E r \in Readers :
          /\ samplePc[r] = "cpu_err"
          /\ stat[r].cpu # G_CPU_PERCENT

\* C16: G_CPU_PERCENT changes only in the CPU sampler's write under its own
\* guard, G_NET_SPEED only in the network sampler's two writes under its own
\* guard; no step of a sample() call and no step of the other sampler changes
\* either counter.
C16_SingleWriter ==
    [][/\ G_CPU_PERCENT' # G_CPU_PERCENT
            => (cpuPc = "write" /\ cpuLock = CpuSampler /\ cpuPc' = "refresh")
       /\ G_NET_SPEED' # G_NET_SPEED
            => (netPc \in {"write_rx", "write_tx"} /\ netLock = NetSampler
                /\ netPc' # netPc)
       /\ cpuPc' # cpuPc => G_NET_SPEED' = G_NET_SPEED
       /\ netPc' # netPc => G_CPU_PERCENT' = G_CPU_PERCENT
       /\ (\E r \in Readers : samplePc'[r] # samplePc[r] \/ stat'[r] # stat[r])
            => (G_CPU_PERCENT' = G_CPU_PERCENT /\ G_NET_SPEED' = G_NET_SPEED)]_vars

\* a sample() call has returned with the values of both counters in its snapshot
\* and the counters, published by their samplers, still hold them
C16_Witness ==
    \E r \in Readers :
        /\ samplePc[r] = "idle"
        /\ G_CPU_PERCENT # 0
        /\ stat[r].cpu = G_CPU_PERCENT
        /\ G_NET_SPEED.net_rx # 0
        /\ stat[r].network_rx = G_NET_SPEED.net_rx
        /\ stat[r].network_tx = G_NET_SPEED.net_tx

\* C17: with args.vnstat set, network_in and network_out are the collaborator's
\* totals, and in a call that went on, last_network_in and last_network_out are
\* the totals less the prior values in u64 arithmetic; with the flag clear,
\* network_in and network_out are the sums of the live counters of eth0 and ens3
\* and the two last_ fields are left as they were. Neither case holds a value of
\* the other source.
C17_ExclusiveTrafficSource ==
    \A r \in Readers :
        FactsTaken(r) =>
            LET vn == os.vnstat_traffic
                live == NetTable(os.level)
                live_in == live[eth0].total_received + live[ens3].total_received
                live_out == live[eth0].total_transmitted + live[ens3].total_transmitted
            IN  IF args.vnstat
                THEN /\ stat[r].network_in = vn[1]
                     /\ stat[r].network_out = vn[2]
                     /\ stat[r].network_in # live_in
                     /\ stat[r].network_out # live_out
                     /\ samplePc[r] # "panicked" =>
                           /\ stat[r].last_network_in = u64_sub(vn[1], vn[3])
                           /\ stat[r].last_network_out = u64_sub(vn[2], vn[4])
                ELSE /\ stat[r].network_in = live_in
                     /\ stat[r].network_out = live_out
                     /\ stat[r].last_network_in = 0
                     /\ stat[r].last_network_out = 0

\* with the flag set, a call has taken the collaborator's totals and deltas while
\* the live counters stood at other values
C17_Witness ==
    \E r \in Readers :
        /\ FactsTaken(r)
        /\ args.vnstat
        /\ os.level = 1
        /\ stat[r].network_in = 500
        /\ stat[r].network_out = 700
        /\ stat[r].last_network_in = 400
        /\ stat[r].last_network_out = 500

\* no sampler holds its guard outside its write, no sample() call holds both
\* guards, and whoever holds a guard can take its next step
LocksHeldBriefly ==
    /\ cpuLock = CpuSampler <=> cpuPc = "write"
    /\ netLock = NetSampler <=> netPc \in {"write_rx", "write_tx"}
    /\ \A r \in Readers :
          /\ ~(cpuLock = Reader(r) /\ netLock = Reader(r))
          /\ cpuLock = Reader(r) <=> samplePc[r] = "cpu_read"
          /\ netLock = Reader(r) <=> samplePc[r] \in {"net_rx", "net_tx"}
          /\ cpuLock = Reader(r) => ENABLED SampleReadCpu(r)
          /\ netLock = Reader(r) => ENABLED (SampleReadRx(r) \/ SampleReadTx(r))
    /\ cpuLock = CpuSampler => ENABLED CpuWrite
    /\ netLock = NetSampler => ENABLED (NetWriteRx \/ NetWriteTx)

C20_NoUnderflow ==
    \A r \in Readers :
        FactsTaken(r) =>
            /\ samplePc[r] # "panicked"
            /\ 0 <= stat[r].swap_used /\ stat[r].swap_used <= stat[r].swap_total
            /\ 0 <= stat[r].hdd_used /\ stat[r].hdd_used <= stat[r].hdd_total
            /\ 0 <= stat[r].last_network_in
            /\ stat[r].last_network_in <= stat[r].network_in
            /\ 0 <= stat[r].last_network_out
            /\ stat[r].last_network_out <= stat[r].network_out

----------------------------------------------------------------------------
(* Properties of the notification channels *)

\* the calls made so far: those that returned or panicked, and the executing one
AllCalls == {calls[i] : i \in 1..Len(calls)} \cup (IF cur = NoCall THEN {} ELSE {cur})

RenderFailed(c) == c.render \notin {"ok", "none"}

\* the requests on the wire that carry a message (not the token requests)
Messages(c) == SelectSeq(wire[c], LAMBDA q : q.kind \in {"smtp", "message"})

\* C2: a notify or notify_test call that has scheduled its delivery task can return
\* at once, whatever the state of the transport.
C2_ReturnNeverWaits == cur # NoCall => ENABLED NotifyReturn

\* a call has returned Ok while the task it spawned has not finished its transport
C2_Witness ==
    \E i \in 1..Len(calls) :
        /\ calls[i].result = "Ok"
        /\ calls[i].spawned = 1
        /\ \E t \in TasksOf(calls[i].id) : tasks[t].pc # "done"

\* the step in which task t meets a transport failure
TransportFails(t) == tasks[t].result = "none" /\ tasks'[t].result = "failed"

\* C3: the step in which a delivery task meets a transport failure changes nothing
\* of the caller, of the call that is executing, of the values already returned,
\* or of any other task.
C3_TransportFailureContained ==
    [][\A t \in 1..Len(tasks) :
          TransportFails(t) =>
             /\ caller' = caller
             /\ cur' = cur
             /\ calls' = calls
             /\ Len(tasks') = Len(tasks)
             /\ \A u \in 1..Len(tasks) : u # t => tasks'[u] = tasks[u]]_vars

\* a task failed in the transport, its call had returned Ok, the caller lives on
C3_Witness ==
    \E t \in 1..Len(tasks) :
        /\ tasks[t].result = "failed"
        /\ \E i \in 1..Len(calls) : calls[i].id = tasks[t].call /\ calls[i].result = "Ok"
        /\ caller.pc # "panicked"
        /\ \E u \in 1..Len(tasks) : tasks[u].result = "delivered"

\* C4: when rendering fails, notify neither returns an error to its caller nor
\* panics.
C4_RenderErrorCaught == \A c \in AllCalls : RenderFailed(c) => c.result = "Ok"

\* C5: a call whose rendering failed (no template registered for its key, or a
\* field missing) spawns no delivery task and puts nothing on the wire.
C5_RenderFailureSendsNothing ==
    \A c \in AllCalls :
        RenderFailed(c) =>
            /\ c.spawned = 0
            /\ TasksOf(c.id) = {}
            /\ \A ch \in {Email, WeChat} :
                  \A k \in 1..Len(wire[ch]) : wire[ch][k].call # c.id

\* notify(Custom) on the Email channel found no template under ("email", "custom")
C5_Witness ==
    \E i \in 1..Len(calls) :
        /\ calls[i].chan = Email
        /\ calls[i].event = "Custom"
        /\ calls[i].render = "no_template"
        /\ templates[<<Email, "custom">>] = NoTemplate
        /\ TasksOf(calls[i].id) = {}

\* C6: a Custom notify whose template renders spawns no task when the content is
\* empty and exactly one when it is not, and returns Ok in both cases.
C6_EmptyCustomSuppressed ==
    \A c \in AllCalls :
        (c.event = "Custom" /\ c.render = "ok") =>
            /\ c.result = "Ok"
            /\ c.content = <<>> => (c.spawned = 0 /\ TasksOf(c.id) = {})
            /\ c.content # <<>> => (c.spawned = 1 /\ Cardinality(TasksOf(c.id)) = 1)

\* one Custom call rendered empty content and another non-empty content
C6_Witness ==
    /\ \E i \in 1..Len(calls) :
          /\ calls[i].event = "Custom" /\ calls[i].render = "ok"
          /\ calls[i].content = <<>> /\ TasksOf(calls[i].id) = {}
    /\ \E i \in 1..Len(calls) :
          /\ calls[i].event = "Custom" /\ calls[i].render = "ok"
          /\ calls[i].content # <<>> /\ Cardinality(TasksOf(calls[i].id)) = 1

\* C7: whatever becomes of one channel's notify, the dispatch invokes every other
\* channel: a dispatch never ends with a channel left uninvoked.
C7_FanOutIsolation == caller.pc = "panicked" => caller.queue = <<>>

\* C8 as stated: on each channel the messages go on the wire in the order of the
\* notify calls.
C8_Original ==
    \A c \in {Email, WeChat} :
        \A i, j \in 1..Len(Messages(c)) :
            i < j => Messages(c)[i].call < Messages(c)[j].call

\* C8 amended: the delivery tasks of a channel are spawned in the order of the
\* notify calls, each before its call returns; the order of their sends is free.
C8_SpawnedInCallOrder ==
    /\ \A i, j \in 1..Len(tasks) :
          (i < j /\ tasks[i].chan = tasks[j].chan) => tasks[i].call < tasks[j].call
    /\ \A c \in AllCalls : Cardinality(TasksOf(c.id)) = c.spawned

\* two calls on one channel, spawned in call order, the later one's message first
\* on the wire
C8_Witness ==
    \E c \in {Email, WeChat} :
        /\ \E i, j \in 1..Len(tasks) :
              i < j /\ tasks[i].chan = c /\ tasks[j].chan = c
        /\ Len(Messages(c)) = 2
        /\ Messages(c)[1].call > Messages(c)[2].call

\* C12: every WeChat delivery task that was spawned finishes, whether the remote
\* answers, answers with something malformed, or never answers at all.
C12_WeChatTaskTerminates ==
    \A i \in 1..MaxCalls :
        <>[]((Len(tasks) >= i /\ tasks[i].chan = WeChat) => tasks[i].pc = "done")

\* a WeChat task has finished in failure without ever having held a token
C12_Witness ==
    \E t \in 1..Len(tasks) :
        /\ tasks[t].chan = WeChat
        /\ tasks[t].pc = "done"
        /\ tasks[t].result = "failed"
        /\ tasks[t].token = <<>>

\* C13: every message POST on the wire follows the token POST of the same
\* notification and carries the access_token that token POST was answered with;
\* a task whose token step yielded no string access_token (request error, deadline,
\* body not JSON, access_token missing or not a string) has no message POST on the
\* wire, and a task goes on to the message step only with a token.
C13_TokenBeforeMessage ==
    LET w == wire[WeChat]
    IN  /\ \A k \in 1..Len(w) :
              w[k].kind = "message" =>
                 /\ \E j \in 1..(k - 1) : w[j].kind = "token" /\ w[j].call = w[k].call
                 /\ w[k].token = <<"access_token", w[k].call>>
                 /\ \E t \in TasksOf(w[k].call) :
                       tasks[t].chan = WeChat /\ tasks[t].token = w[k].token
        /\ \A t \in 1..Len(tasks) :
              tasks[t].chan = WeChat =>
                 /\ tasks[t].token = <<>> =>
                       /\ tasks[t].pc # "msg_wait"
                       /\ \A k \in 1..Len(w) :
                             w[k].call = tasks[t].call => w[k].kind = "token"
                 /\ tasks[t].pc = "msg_wait" =>
                       Cardinality({k \in 1..Len(w) : w[k].call = tasks[t].call}) = 2

\* one notification's token step failed and it has only its token POST on the
\* wire; another's was answered with a token and its message POST carries it
C13_Witness ==
    LET w == wire[WeChat]
    IN  /\ \E t \in 1..Len(tasks) :
              /\ tasks[t].chan = WeChat /\ tasks[t].pc = "done" /\ tasks[t].token = <<>>
              /\ \E k \in 1..Len(w) : w[k].call = tasks[t].call /\ w[k].kind = "token"
        /\ \E k \in 1..Len(w) :
              w[k].kind = "message" /\ w[k].token = <<"access_token", w[k].call>>

\* the requests of one kind that a call's task has put on the wire
Attempts(c, id, kind) ==
    Cardinality({k \in 1..Len(wire[c]) : wire[c][k].call = id /\ wire[c][k].kind = kind})

\* C14: a notify or notify_test call spawns at most one delivery task, and the
\* task of a call puts at most one SMTP send, at most one token POST and at most
\* one message POST on the wire, whether they succeed or fail; a task that has
\* failed has made exactly the attempts of its one pass.
C14_NoRetry ==
    /\ \A c \in AllCalls :
          /\ c.spawned <= 1
          /\ Cardinality(TasksOf(c.id)) <= 1
          /\ Attempts(Email, c.id, "smtp") <= 1
          /\ Attempts(WeChat, c.id, "token") <= 1
          /\ Attempts(WeChat, c.id, "message") <= 1
    /\ Len(wire[Email]) + Len(wire[WeChat]) <= 2 * Len(tasks)
    /\ \A t \in 1..Len(tasks) :
          tasks[t].result = "failed" =>
             IF tasks[t].chan = Email
             THEN Attempts(Email, tasks[t].call, "smtp") = 1
             ELSE /\ Attempts(WeChat, tasks[t].call, "token") = 1
                  /\ Attempts(WeChat, tasks[t].call, "message")
                        = (IF tasks[t].token = <<>> THEN 0 ELSE 1)

\* an SMTP send failed and a message POST failed, each attempted once, and both
\* tasks are finished
C14_Witness ==
    /\ \E t \in 1..Len(tasks) :
          /\ tasks[t].chan = Email /\ tasks[t].pc = "done" /\ tasks[t].result = "failed"
          /\ Attempts(Email, tasks[t].call, "smtp") = 1
    /\ \E t \in 1..Len(tasks) :
          /\ tasks[t].chan = WeChat /\ tasks[t].pc = "done" /\ tasks[t].result = "failed"
          /\ tasks[t].token # <<>>
          /\ Attempts(WeChat, tasks[t].call, "message") = 1

\* the template keys the notify of a channel renders
RenderedKeys(c) ==
    IF c = Email THEN {<<Email, get_tag(e)>> : e \in Events} ELSE {<<WeChat, "custom">>}

====
